---------------------------- MODULE Spec2Model ----------------------------
(***************************************************************************)
(* A model of rollup-plugin-css-chunks (src/index.ts): the transform hook  *)
(* that records style fragments, and the generateBundle hook that orders   *)
(* the output chunks, merges each chunk's style fragments and their source *)
(* maps, names and emits the style artifact and patches the owning chunk.  *)
(*                                                                         *)
(* Text (style text, chunk code, file names, paths, URLs) is a sequence of *)
(* string tokens; a token stands for one or more characters.  "\n" is the  *)
(* line break and "/" the path separator.  Lengths and columns are counted *)
(* in tokens.                                                              *)
(***************************************************************************)
EXTENDS Integers, Sequences, FiniteSets, TLC

----------------------------------------------------------------------------
(* Text helpers: what the JavaScript string operations used by the code do *)

\* s.startsWith(pat, i) on token sequences (i is 1-based).
MatchAt(s, pat, i) ==
    /\ i + Len(pat) - 1 <= Len(s)
    /\ \A k \in 1..Len(pat) : s[i + k - 1] = pat[k]

\* The first index >= i at which pat occurs in s, or 0.
RECURSIVE IndexFrom(_, _, _)
IndexFrom(s, pat, i) ==
    IF i + Len(pat) - 1 > Len(s) THEN 0
    ELSE IF MatchAt(s, pat, i) THEN i
    ELSE IndexFrom(s, pat, i + 1)

\* String.prototype.replace(string, string): the first occurrence only.
ReplaceFirst(s, pat, rep) ==
    LET i == IndexFrom(s, pat, 1)
    IN  IF i = 0 THEN s
        ELSE SubSeq(s, 1, i - 1) \o rep \o SubSeq(s, i + Len(pat), Len(s))

\* String.prototype.replace(new RegExp(escaped literal, 'g'), string): every
\* occurrence, scanning left to right, the replacement never rescanned.
RECURSIVE ReplaceAllFrom(_, _, _, _)
ReplaceAllFrom(s, pat, rep, i) ==
    IF i > Len(s) THEN <<>>
    ELSE IF MatchAt(s, pat, i)
         THEN rep \o ReplaceAllFrom(s, pat, rep, i + Len(pat))
         ELSE <<s[i]>> \o ReplaceAllFrom(s, pat, rep, i + 1)

ReplaceAll(s, pat, rep) == ReplaceAllFrom(s, pat, rep, 1)

\* Number of occurrences of token t in s.
RECURSIVE Count(_, _)
Count(s, t) ==
    IF s = <<>> THEN 0
    ELSE (IF Head(s) = t THEN 1 ELSE 0) + Count(Tail(s), t)

\* Index of the last occurrence of token t in s, or 0.
RECURSIVE LastIndexOf(_, _)
LastIndexOf(s, t) ==
    IF s = <<>> THEN 0
    ELSE IF s[Len(s)] = t THEN Len(s)
    ELSE LastIndexOf(SubSeq(s, 1, Len(s) - 1), t)

----------------------------------------------------------------------------
(* Paths: node's path.resolve, path.dirname and path.relative (POSIX)      *)

\* The working directory of the build process.
Cwd == <<"/", "w">>

\* path.resolve(p): an absolute path stays, a relative one hangs under Cwd.
Resolve(p) ==
    IF p # <<>> /\ p[1] = "/" THEN p
    ELSE IF p = <<>> THEN Cwd
    ELSE Cwd \o <<"/">> \o p

\* The segments of a path: the token runs between "/" tokens, empty runs and
\* "." dropped.
RECURSIVE SegmentsFrom(_, _, _)
SegmentsFrom(p, i, cur) ==
    LET keep == IF cur = <<>> \/ cur = <<".">> THEN <<>> ELSE <<cur>>
    IN  IF i > Len(p) THEN keep
        ELSE IF p[i] = "/" THEN keep \o SegmentsFrom(p, i + 1, <<>>)
        ELSE SegmentsFrom(p, i + 1, Append(cur, p[i]))

Segments(p) == SegmentsFrom(p, 1, <<>>)

\* Segments joined by "/".
RECURSIVE JoinSegments(_)
JoinSegments(segs) ==
    IF segs = <<>> THEN <<>>
    ELSE IF Len(segs) = 1 THEN segs[1]
    ELSE segs[1] \o <<"/">> \o JoinSegments(Tail(segs))

\* path.dirname(p).
Dirname(p) ==
    LET i == LastIndexOf(p, "/")
    IN  IF i = 0 THEN <<".">>
        ELSE IF i = 1 THEN <<"/">>
        ELSE SubSeq(p, 1, i - 1)

\* Length of the common prefix of two segment lists.
RECURSIVE CommonPrefix(_, _)
CommonPrefix(a, b) ==
    IF a = <<>> \/ b = <<>> THEN 0
    ELSE IF Head(a) = Head(b) THEN 1 + CommonPrefix(Tail(a), Tail(b))
    ELSE 0

\* path.relative(from, to).
PathRelative(from, to) ==
    LET f == Segments(Resolve(from))
        t == Segments(Resolve(to))
        k == CommonPrefix(f, t)
        ups == [j \in 1..(Len(f) - k) |-> <<"..">>]
    IN  JoinSegments(ups \o SubSeq(t, k + 1, Len(t)))


----------------------------------------------------------------------------
(* Pure functions of src/index.ts                                          *)

\* createFilter(/\.css$/i, []): the id ends in ".css", in either case.
filter(id) == id # <<>> /\ id[Len(id)] \in {".css", ".CSS"}

\* A variant of hash that ignores the content.
hashOfNothing(content) == "00000000"

\* crypto.createHmac('sha256', content).digest('hex').substr(0, 8): one token,
\* a function of the content alone, taken to be collision-free.
hash(content) == ToString(content)

\* makeFileName: '[name]' then '[hash]', the first occurrence of each.
makeFileName(name, hashed, pattern) ==
    ReplaceFirst(ReplaceFirst(pattern, <<"[name]">>, name), <<"[hash]">>, <<hashed>>)

\* resolveImportMeta: the placeholder literal for import.meta.CSS_URL; <<>> is
\* null.
resolveImportMeta(property, chunkId) ==
    IF property = "CSS_URL"
    THEN <<"\"", "CSS_FILE_">> \o chunkId \o <<"\"">>
    ELSE <<>>

\* The text the RegExp of the placeholder replacement matches literally.
PlaceholderToken(fileName) == <<"CSS_FILE_">> \o fileName

\* urljoin(publicPath, css_file_name): empty parts dropped, parts joined by
\* one "/".
urljoin(publicPath, name) ==
    IF publicPath = <<>> THEN name
    ELSE IF publicPath[Len(publicPath)] = "/" THEN publicPath \o name
    ELSE publicPath \o <<"/">> \o name

\* sourcemap-codec decode: each segment <<column, source, line, column>> is
\* stored as differences; the generated column restarts on every line, the
\* other three fields run on across lines.
RECURSIVE DecodeLine(_, _, _)
DecodeLine(segs, col, carry) ==
    IF segs = <<>> THEN [segs |-> <<>>, carry |-> carry]
    ELSE LET d == Head(segs)
             seg == <<col + d[1], carry[1] + d[2], carry[2] + d[3], carry[3] + d[4]>>
             rest == DecodeLine(Tail(segs), seg[1], <<seg[2], seg[3], seg[4]>>)
         IN  [segs |-> <<seg>> \o rest.segs, carry |-> rest.carry]

RECURSIVE DecodeFrom(_, _)
DecodeFrom(lines, carry) ==
    IF lines = <<>> THEN <<>>
    ELSE LET l == DecodeLine(Head(lines), 0, carry)
         IN  <<l.segs>> \o DecodeFrom(Tail(lines), l.carry)

decode(mappings) == DecodeFrom(mappings, <<0, 0, 0>>)

\* sourcemap-codec encode: the inverse differences.
RECURSIVE EncodeLine(_, _, _)
EncodeLine(segs, col, carry) ==
    IF segs = <<>> THEN [segs |-> <<>>, carry |-> carry]
    ELSE LET s == Head(segs)
             d == <<s[1] - col, s[2] - carry[1], s[3] - carry[2], s[4] - carry[3]>>
             rest == EncodeLine(Tail(segs), s[1], <<s[2], s[3], s[4]>>)
         IN  [segs |-> <<d>> \o rest.segs, carry |-> rest.carry]

RECURSIVE EncodeFrom(_, _)
EncodeFrom(lines, carry) ==
    IF lines = <<>> THEN <<>>
    ELSE LET l == EncodeLine(Head(lines), 0, carry)
         IN  <<l.segs>> \o EncodeFrom(Tail(lines), l.carry)

encode(decoded) == EncodeFrom(decoded, <<0, 0, 0>>)

----------------------------------------------------------------------------
(* State                                                                   *)

VARIABLES
    pluginOptions,  \* defaultPluginOptions overlaid with the user's options
    outputDir,      \* generateBundleOpts.dir; <<>> when none is configured
    css_data,       \* module id -> [code, map], written by transform
    hostBundle,     \* the output bundle as the host renders it for a build
    bundle,         \* the bundle handed to generateBundle, patched in place
    chunksMap,      \* the Orderer's records, in insertion order
    idx,            \* position of the per-chunk loop in chunksMap
    emitted,        \* the assets registered through this.emitFile
    warnings,       \* number of this.warn calls in the current build
    pc,             \* "idle", "loop", "done" or "threw"
    results,        \* per processed chunk of this build, what the loop computed
    prev,           \* results of the previous build
    edited,         \* id of the fragment the last transform rewrote, or <<>>
    rebuilds        \* number of rebuilds so far

vars == <<pluginOptions, outputDir, css_data, hostBundle, bundle, chunksMap,
          idx, emitted, warnings, pc, results, prev, edited, rebuilds>>

\* const defaultPluginOptions.
defaultPluginOptions ==
    [injectImports    |-> FALSE,
     chunkFileNames   |-> <<"[name]", "-", "[hash]", ".css">>,
     entryFileNames   |-> <<"[name]", ".css">>,
     publicPath       |-> <<>>,
     sourcemap        |-> FALSE,
     emitFiles        |-> TRUE,
     makeRelativeUrls |-> FALSE]

----------------------------------------------------------------------------
(* The host's module graph: this.getModuleInfo                             *)

S1 == <<"s1", ".css">>
S2 == <<"s2", ".css">>
U  == <<"u", ".js">>
M1 == <<"m1", ".js">>
M2 == <<"m2", ".js">>
M3 == <<"m3", ".js">>
\* A module the host has no record of: getModuleInfo returns null.
Virtual == <<"virtual">>

\* importedIds of each module the host knows.
ImportedIds ==
    (M1 :> <<S1, U, S2>>) @@ (M2 :> <<S2>>) @@ (M3 :> <<U>>)
    @@ (S1 :> <<>>) @@ (S2 :> <<>>) @@ (U :> <<>>)

\* getModuleInfo(v)?.meta.transformedByCSSChunks == true: the meta that the
\* transform hook returns for the ids it records.
IsStyle(v) == v \in DOMAIN ImportedIds /\ v \in DOMAIN css_data

\* getModuleInfo(f)?.importedIds?.filter(...): nothing for an unknown module.
StyleImports(f) ==
    IF f \in DOMAIN ImportedIds THEN SelectSeq(ImportedIds[f], IsStyle) ELSE <<>>

\* s without the repeats of its elements.
RECURSIVE Deduplicated(_)
Deduplicated(q) ==
    IF q = <<>> THEN <<>>
    ELSE LET rest == Deduplicated(SubSeq(q, 1, Len(q) - 1))
         IN  IF \E i \in 1..Len(rest) : rest[i] = q[Len(q)] THEN rest
             ELSE Append(rest, q[Len(q)])

\* A variant of the Collector that lists every fragment once.
RECURSIVE StyleImportsOfAll(_)
StyleImportsOfAll(modules) ==
    IF modules = <<>> THEN <<>>
    ELSE StyleImports(Head(modules)) \o StyleImportsOfAll(Tail(modules))

css_modulesDeduplicated(modules) == Deduplicated(StyleImportsOfAll(modules))

\* The Collector: css_modules of a chunk.
RECURSIVE css_modules(_)
css_modules(modules) ==
    IF modules = <<>> THEN <<>>
    ELSE StyleImports(Head(modules)) \o css_modules(Tail(modules))

----------------------------------------------------------------------------
(* The Orderer                                                             *)

\* bundle[o]: the index of the entry keyed o, 0 for undefined.
Lookup(b, o) ==
    IF \E k \in 1..Len(b) : b[k].fileName = o
    THEN CHOOSE k \in 1..Len(b) : b[k].fileName = o
    ELSE 0

\* chunksMap.has(o)
Has(cm, o) == \E k \in 1..Len(cm) : cm[k].fileName = o

\* chunksMap.get(o).order, 0 when get returns undefined.
OrderOf(cm, o) ==
    IF Has(cm, o) THEN cm[CHOOSE k \in 1..Len(cm) : cm[k].fileName = o].order ELSE 0

\* addChunk: the imports first, then the chunk itself unless registered.
RECURSIVE addChunk(_, _, _)
RECURSIVE addImports(_, _, _)
\* A variant of addChunk that registers the chunk before it visits the imports.
addChunkBeforeImports(cm, b, k) ==
    IF k = 0 \/ b[k].type = "asset" THEN cm
    ELSE IF Has(cm, b[k].fileName) THEN cm
    ELSE addImports(Append(cm, [fileName |-> b[k].fileName, order |-> Len(cm) + 1]),
                    b, b[k].imports)

addChunk(cm, b, k) ==
    IF k = 0 \/ b[k].type = "asset" THEN cm
    ELSE LET cm2 == addImports(cm, b, b[k].imports)
         IN  IF Has(cm2, b[k].fileName) THEN cm2
             ELSE Append(cm2, [fileName |-> b[k].fileName, order |-> Len(cm2) + 1])

addImports(cm, b, imports) ==
    IF imports = <<>> THEN cm
    ELSE addImports(addChunk(cm, b, Lookup(b, Head(imports))), b, Tail(imports))

\* Object.values(bundle).forEach(addChunk)
RECURSIVE addAll(_, _, _)
addAll(cm, b, k) ==
    IF k > Len(b) THEN cm ELSE addAll(addChunk(cm, b, k), b, k + 1)

----------------------------------------------------------------------------
(* One iteration of the per-chunk loop of generateBundle                   *)

\* A variant of emitFiles without the directory check.
emitFilesOptionOnly == pluginOptions.emitFiles

\* emitFiles after the directory check.
emitFiles == pluginOptions.emitFiles /\ outputDir # <<>>

\* The comparator of the imports sort reads chunksMap.get(o).order of both
\* arguments: it raises a TypeError as soon as it is called with an id that
\* chunksMap does not hold, and a sort of two or more ids calls it on every
\* one of them.
SortThrows(imports) ==
    Len(imports) >= 2 /\ \E i \in 1..Len(imports) : ~Has(chunksMap, imports[i])

\* Insertion by the comparator (o1, o2) => order(o1) > order(o2) ? 1 : -1.
RECURSIVE InsertByOrder(_, _)
InsertByOrder(o, sorted) ==
    IF sorted = <<>> THEN <<o>>
    ELSE IF OrderOf(chunksMap, o) > OrderOf(chunksMap, Head(sorted))
         THEN <<Head(sorted)>> \o InsertByOrder(o, Tail(sorted))
         ELSE <<o>> \o sorted

\* [...chunk.imports].sort(comparator)
RECURSIVE SortByOrder(_)
SortByOrder(imports) ==
    IF imports = <<>> THEN <<>>
    ELSE InsertByOrder(Head(imports), SortByOrder(Tail(imports)))

\* One '@import' statement.
ImportStatement(fileName, f) ==
    <<"@import '">> \o PathRelative(Dirname(fileName), f) \o <<"';">>

RECURSIVE ImportStatements(_, _)
ImportStatements(fileName, fs) ==
    IF fs = <<>> THEN <<>>
    ELSE ImportStatement(fileName, Head(fs)) \o ImportStatements(fileName, Tail(fs))

\* importCode for one imported id c, with its line break; nothing when
\* bundle[c] is undefined or lists no style file.
ImportLine(fileName, c) ==
    LET k == Lookup(bundle, c)
        importCode == IF k = 0 THEN <<>>
                      ELSE ImportStatements(fileName, SelectSeq(bundle[k].imports, filter))
    IN  IF importCode = <<>> THEN <<>> ELSE importCode \o <<"\n">>

\* (<OutputChunk>bundle[c]).imports is undefined for an asset: .filter raises.
ImportLineThrows(c) ==
    Lookup(bundle, c) # 0 /\ bundle[Lookup(bundle, c)].type = "asset"

RECURSIVE ImportLines(_, _)
ImportLines(fileName, cs) ==
    IF cs = <<>> THEN <<>>
    ELSE ImportLine(fileName, Head(cs)) \o ImportLines(fileName, Tail(cs))

\* The injectImports block: whether it raises, and the text it produces.
InjectThrows(chunk) ==
    /\ pluginOptions.injectImports
    /\ \/ SortThrows(chunk.imports)
       \/ \E i \in 1..Len(chunk.imports) : ImportLineThrows(chunk.imports[i])

InjectedText(chunk) ==
    IF pluginOptions.injectImports
    THEN ImportLines(chunk.fileName, SortByOrder(chunk.imports))
    ELSE <<>>

\* segment[0] += n on every segment of the first line.
ShiftFirstLine(decoded, n) ==
    [l \in 1..Len(decoded) |->
        IF l = 1
        THEN [s \in 1..Len(decoded[l]) |->
                <<decoded[l][s][1] + n, decoded[l][s][2], decoded[l][s][3], decoded[l][s][4]>>]
        ELSE decoded[l]]

\* segment[1] = i on every segment of every line.
SetSourceIndex(decoded, i) ==
    [l \in 1..Len(decoded) |->
        [s \in 1..Len(decoded[l]) |->
            <<decoded[l][s][1], i, decoded[l][s][3], decoded[l][s][4]>>]]

\* sources.map(source => path.relative(dir, source))
RelativeSources(srcs) == [k \in 1..Len(srcs) |-> PathRelative(outputDir, srcs[k])]

\* The body of the loop over css_modules for one fragment f.  `placed` records,
\* for each fragment that contributed to the map, where its lines went in the
\* mapping table and where its text starts in the merged text.
MergeFragment(acc, f) ==
    LET m == css_data[f].map
        i == Len(acc.sources)
        decoded == decode(m.mappings)
        shifted == IF i = 0 THEN ShiftFirstLine(decoded, Len(acc.code)) ELSE decoded
        adjusted == IF i > 0 THEN SetSourceIndex(shifted, i) ELSE shifted
        withMap == pluginOptions.sourcemap /\ emitFiles
    IN  [code |-> acc.code \o css_data[f].code \o <<"\n">>,
         sources |-> IF withMap THEN acc.sources \o RelativeSources(m.sources)
                     ELSE acc.sources,
         sourcesContent |-> IF withMap /\ m.hasSourcesContent
                            THEN acc.sourcesContent \o m.sourcesContent
                            ELSE acc.sourcesContent,
         mappings |-> IF withMap THEN acc.mappings \o adjusted ELSE acc.mappings,
         placed |-> IF withMap
                    THEN Append(acc.placed,
                                [id |-> f,
                                 tableLine |-> Len(acc.mappings),
                                 columnShift |-> IF i = 0 THEN Len(acc.code) ELSE 0,
                                 textLine |-> Count(acc.code, "\n"),
                                 textColumn |-> Len(acc.code) - LastIndexOf(acc.code, "\n"),
                                 lines |-> Len(decoded)])
                    ELSE acc.placed]

RECURSIVE MergeAll(_, _)
MergeAll(acc, fs) ==
    IF fs = <<>> THEN acc ELSE MergeAll(MergeFragment(acc, Head(fs)), Tail(fs))

\* path.resolve(dir, p)
ResolveIn(dir, p) ==
    IF p # <<>> /\ p[1] = "/" THEN p ELSE Resolve(dir) \o <<"/">> \o p

\* The makeRelativeUrls pass: every url(<resolved bundle dir>/...) becomes
\* url(<path relative to the artifact's directory>).
RECURSIVE RewriteUrlsFrom(_, _, _, _)
RewriteUrlsFrom(code, i, bundleDir, css_file_name) ==
    IF i > Len(code) THEN <<>>
    ELSE LET j == IF code[i] = "url(" THEN IndexFrom(code, <<")">>, i + 1) ELSE 0
             assetPath == IF j = 0 THEN <<>> ELSE SubSeq(code, i + 1, j - 1)
             prefix == Resolve(bundleDir) \o <<"/">>
             hit == j # 0 /\ MatchAt(assetPath, prefix, 1) /\ Len(assetPath) > Len(prefix)
         IN  IF hit
             THEN <<"url(">>
                  \o PathRelative(ResolveIn(bundleDir, Dirname(css_file_name)),
                                  ResolveIn(bundleDir, assetPath))
                  \o <<")">>
                  \o RewriteUrlsFrom(code, j + 1, bundleDir, css_file_name)
             ELSE <<code[i]>> \o RewriteUrlsFrom(code, i + 1, bundleDir, css_file_name)

RewriteUrls(code, css_file_name) ==
    RewriteUrlsFrom(code, 1, IF outputDir # <<>> THEN outputDir ELSE <<".">>, css_file_name)

\* The pattern that names a chunk's artifact.
PatternOf(chunk) ==
    IF chunk.isEntry THEN pluginOptions.entryFileNames ELSE pluginOptions.chunkFileNames

\* The merged text of a chunk as it stands at the empty check: the injected
\* import lines, then the fragments.
Merged(chunk) ==
    MergeAll([code |-> InjectedText(chunk), sources |-> <<>>, sourcesContent |-> <<>>,
              mappings |-> <<>>, placed |-> <<>>],
             css_modules(chunk.modules))

\* const map = emitMap ? {...} : null; the null map is [version |-> 0].
MergedMap(acc, css_file_name) ==
    IF emitFiles /\ pluginOptions.sourcemap
    THEN [version |-> 3, file |-> css_file_name, sources |-> acc.sources,
          sourcesContent |-> acc.sourcesContent, names |-> <<>>,
          mappings |-> encode(acc.mappings)]
    ELSE [version |-> 0, file |-> <<>>, sources |-> <<>>, sourcesContent |-> <<>>,
          names |-> <<>>, mappings |-> <<>>]

\* A variant of PatchCode without the 'g' flag: the first occurrence only.
PatchCodeFirst(chunk, css_file_url) ==
    ReplaceFirst(chunk.code, PlaceholderToken(chunk.fileName), css_file_url)

\* chunk.code.replace(new RegExp(`CSS_FILE_${escapeRegExp(chunk.fileName)}`, 'g'), url)
PatchCode(chunk, css_file_url) ==
    ReplaceAll(chunk.code, PlaceholderToken(chunk.fileName), css_file_url)

\* encodeURIComponent: of the tokens in use only "/" is escaped.
encodeURIComponent(name) ==
    [k \in 1..Len(name) |-> IF name[k] = "/" THEN "%2F" ELSE name[k]]

\* The assets one iteration registers: the map first, then the style file.
EmittedAssets(code, css_file_name, map) ==
    IF ~emitFiles THEN <<>>
    ELSE IF pluginOptions.sourcemap
    THEN <<[kind |-> "map", fileName |-> css_file_name \o <<".map">>,
            source |-> <<>>, map |-> map],
           [kind |-> "css", fileName |-> css_file_name,
            source |-> code \o <<"/*# sourceMappingURL=">>
                            \o encodeURIComponent(css_file_name \o <<".map">>)
                            \o <<" */">>,
            map |-> map]>>
    ELSE <<[kind |-> "css", fileName |-> css_file_name, source |-> code, map |-> map]>>

\* A variant of SkipChunk that never skips.
SkipChunkNever(code) == FALSE

\* if (code === '') continue;
SkipChunk(code) == code = <<>>

\* What one iteration computes for `chunk` from the merged text and map
\* tables `acc` and the artifact's name.
Linked(chunk, acc, css_file_name) ==
    [fileName |-> chunk.fileName,
     skipped |-> SkipChunk(acc.code),
     fragments |-> css_modules(chunk.modules),
     merged |-> acc.code,
     placed |-> acc.placed,
     css_file_name |-> css_file_name,
     css_file_url |-> urljoin(pluginOptions.publicPath, css_file_name),
     codeBefore |-> chunk.code,
     importsBefore |-> chunk.imports,
     importsAfter |-> chunk.imports,
     codeAfter |-> PatchCode(chunk, urljoin(pluginOptions.publicPath, css_file_name)),
     assets |-> EmittedAssets(IF pluginOptions.makeRelativeUrls
                              THEN RewriteUrls(acc.code, css_file_name)
                              ELSE acc.code,
                              css_file_name, MergedMap(acc, css_file_name))]

Named(chunk, acc) ==
    Linked(chunk, acc, makeFileName(chunk.name, hash(acc.code), PatternOf(chunk)))

Iteration(chunk) == Named(chunk, Merged(chunk))

----------------------------------------------------------------------------
(* Actions                                                                 *)

\* Bound on the number of rebuilds (transform of an edited fragment followed
\* by a new generateBundle) in one behaviour.
MaxRebuilds == 1

\* The tokens that stand for one character: an edit puts one in place of
\* another.
EditAlphabet == {"a", "b"}

\* generateBundle, up to the per-chunk loop: the directory check with its
\* warning, and the Orderer over Object.values(bundle).
GenerateBundleEnter ==
    /\ pc = "idle"
    /\ warnings' = IF outputDir = <<>> THEN warnings + 1 ELSE warnings
    /\ chunksMap' = addAll(<<>>, bundle, 1)
    /\ idx' = 1
    /\ pc' = IF chunksMap' = <<>> THEN "done" ELSE "loop"
    /\ UNCHANGED <<pluginOptions, outputDir, css_data, hostBundle, bundle, emitted,
                   results, prev, edited, rebuilds>>

\* generateBundle, one iteration of `for (const {chunk} of chunksMap.values())`:
\* it raises in the injectImports block, or skips the chunk on empty text, or
\* patches the chunk and registers its assets.
GenerateBundleChunk ==
    /\ pc = "loop"
    /\ \E k \in {Lookup(bundle, chunksMap[idx].fileName)} :
       \E r \in {Iteration(bundle[k])} :
         IF InjectThrows(bundle[k])
         THEN /\ pc' = "threw"
              /\ UNCHANGED <<bundle, emitted, results, idx>>
         ELSE /\ bundle' = IF r.skipped THEN bundle
                           ELSE [bundle EXCEPT
                                   ![k].code = r.codeAfter,
                                   ![k].imports = IF emitFiles
                                                  THEN Append(@, r.css_file_name)
                                                  ELSE @]
              /\ emitted' = IF r.skipped THEN emitted ELSE emitted \o r.assets
              /\ results' = Append(results,
                                 [r EXCEPT !.codeAfter = bundle'[k].code,
                                           !.importsAfter = bundle'[k].imports,
                                           !.assets = SubSeq(emitted', Len(emitted) + 1,
                                                             Len(emitted'))])
              /\ idx' = idx + 1
              /\ pc' = IF idx = Len(chunksMap) THEN "done" ELSE "loop"
    /\ UNCHANGED <<pluginOptions, outputDir, css_data, hostBundle, chunksMap, warnings,
                   prev, edited, rebuilds>>

\* transform(code, id) on a rebuild: one character of one recorded fragment
\* was edited; the host then renders the bundle afresh for the next
\* generateBundle.  The plugin instance, and css_data with it, lives on.
Transform ==
    /\ pc \in {"done", "threw"}
    /\ rebuilds < MaxRebuilds
    /\ \E id \in DOMAIN css_data :
         \E i \in 1..Len(css_data[id].code) :
           \E c \in EditAlphabet \ {css_data[id].code[i]} :
             /\ filter(id)
             /\ css_data[id].code[i] \in EditAlphabet
             /\ css_data' = [css_data EXCEPT ![id].code = [@ EXCEPT ![i] = c]]
             /\ edited' = id
    /\ prev' = results
    /\ results' = <<>>
    /\ bundle' = hostBundle
    /\ chunksMap' = <<>>
    /\ idx' = 1
    /\ emitted' = <<>>
    /\ warnings' = 0
    /\ rebuilds' = rebuilds + 1
    /\ pc' = "idle"
    /\ UNCHANGED <<pluginOptions, outputDir, hostBundle>>

Next == GenerateBundleEnter \/ GenerateBundleChunk \/ Transform

----------------------------------------------------------------------------
(* Inputs: bundles, options and fragment tables of bounded size            *)

\* Bound on the length of a chunk's import list as the host renders it.
MaxImports == 2

\* File names of the code chunks, of an external module and of an asset.
A == <<"a", ".js">>
B == <<"sub", "/", "b", ".js">>
C == <<"c", ".js">>
Ext == <<"lodash">>
Img == <<"img", ".png">>

OutDir == <<"/", "out">>

\* Sequences over S of length at most n, no element twice.
SeqsNoRep(S, n) ==
    {q \in UNION {[1..k -> S] : k \in 0..n} :
        \A i, j \in 1..Len(q) : i # j => q[i] # q[j]}

\* The permutations of 1..n, as sequences.
Perms(n) == {q \in [1..n -> 1..n] : \A i, j \in 1..n : i # j => q[i] # q[j]}

\* A chunk's code with n reads of import.meta.CSS_URL in it.
RECURSIVE ChunkCode(_, _)
ChunkCode(fileName, n) ==
    IF n = 0 THEN <<"x", ";">>
    ELSE ChunkCode(fileName, n - 1) \o resolveImportMeta("CSS_URL", fileName) \o <<";">>

OutputChunk(fileName, name, isEntry, imports, modules, reads) ==
    [type |-> "chunk", fileName |-> fileName, name |-> name, isEntry |-> isEntry,
     imports |-> imports, modules |-> modules, code |-> ChunkCode(fileName, reads)]

OutputAsset(fileName) ==
    [type |-> "asset", fileName |-> fileName, name |-> <<>>, isEntry |-> FALSE,
     imports |-> <<>>, modules |-> <<>>, code |-> <<>>]

\* The bundles with chunks A, B and C and one asset: A may import B, C and
\* Ext, B may import C and Ext, C may import Ext, so the import relation is
\* acyclic; `orders` are the orders in which Object.values lists the chunks.
Bundles(impsA, impsB, impsC, modsA, modsB, modsC, entriesA, reads, orders) ==
    {LET chunks == <<OutputChunk(A, <<"a">>, eA, iA, mA, n),
                     OutputChunk(B, <<"b">>, FALSE, iB, mB, n),
                     OutputChunk(C, <<"c">>, FALSE, iC, mC, 0)>>
     IN  <<OutputAsset(Img)>> \o [k \in 1..3 |-> chunks[o[k]]] :
        iA \in impsA, iB \in impsB, iC \in impsC, mA \in modsA, mB \in modsB,
        mC \in modsC, eA \in entriesA, n \in reads, o \in orders}

\* Source maps as getCombinedSourcemap returns them.
SourceOf(id) == <<"/", "src", "/">> \o id

EmptyMap ==
    [sources |-> <<>>, hasSourcesContent |-> TRUE, sourcesContent |-> <<>>,
     mappings |-> <<<<>>>>]

OneLineMap(id, content) ==
    [sources |-> <<SourceOf(id)>>, hasSourcesContent |-> content,
     sourcesContent |-> IF content THEN <<"text">> ELSE <<>>,
     mappings |-> << << <<0, 0, 0, 0>>, <<1, 0, 0, 1>> >> >>]

TwoLineMap(id, content) ==
    [sources |-> <<SourceOf(id)>>, hasSourcesContent |-> content,
     sourcesContent |-> IF content THEN <<"text">> ELSE <<>>,
     mappings |-> << << <<0, 0, 0, 0>> >>, << <<0, 0, 1, 0>> >> >>]

\* The fragment tables: S1 and S2 as transform recorded them.
Tables(frags1, frags2) ==
    {(S1 :> f1) @@ (S2 :> f2) : f1 \in frags1, f2 \in frags2}

Options(inject, maps, emit, relative, entryNames, chunkNames) ==
    {[defaultPluginOptions EXCEPT !.injectImports = i, !.sourcemap = m,
         !.emitFiles = e, !.makeRelativeUrls = r, !.entryFileNames = en,
         !.chunkFileNames = cn] :
        i \in inject, m \in maps, e \in emit, r \in relative, en \in entryNames,
        cn \in chunkNames}

InitWith(bundles, options, dirs, tables) ==
    /\ hostBundle \in bundles
    /\ bundle = hostBundle
    /\ pluginOptions \in options
    /\ outputDir \in dirs
    /\ css_data \in tables
    /\ chunksMap = <<>>
    /\ idx = 1
    /\ emitted = <<>>
    /\ warnings = 0
    /\ pc = "idle"
    /\ results = <<>>
    /\ prev = <<>>
    /\ edited = <<>>
    /\ rebuilds = 0

\* Builds that vary the import graph and the order of the bundle's entries.
InitOrder ==
    InitWith(Bundles(SeqsNoRep({B, C, Ext}, MaxImports), SeqsNoRep({C, Ext}, MaxImports),
                     SeqsNoRep({Ext}, MaxImports),
                     {<<M3>>}, {<<M2>>}, {<<M1>>}, {TRUE}, {1}, Perms(3)),
             Options(BOOLEAN, {FALSE}, {TRUE}, {FALSE},
                     {defaultPluginOptions.entryFileNames},
                     {defaultPluginOptions.chunkFileNames}),
             {OutDir},
             Tables({[code |-> <<"a">>, map |-> EmptyMap]},
                    {[code |-> <<"b">>, map |-> EmptyMap]}))

SpecOrder == InitOrder /\ [][Next]_vars

\* Builds that vary the options, the output directory, the modules of the
\* chunks, the reads of import.meta.CSS_URL and the fragments' maps.
Init ==
    InitWith(Bundles({<<>>, <<B>>, <<Ext, B>>}, {<<>>}, {<<>>},
                     {<<>>, <<M3>>, <<M1>>, <<M2, Virtual, M1>>}, {<<>>, <<M2>>}, {<<>>},
                     {TRUE}, {0, 2}, {<<1, 2, 3>>}),
             Options(BOOLEAN, BOOLEAN, BOOLEAN, BOOLEAN,
                     {defaultPluginOptions.entryFileNames},
                     {defaultPluginOptions.chunkFileNames}),
             {OutDir, <<>>},
             Tables({[code |-> <<"a">>, map |-> OneLineMap(S1, FALSE)],
                     [code |-> <<"a", "\n", "a">>, map |-> TwoLineMap(S1, TRUE)]},
                    {[code |-> <<"b", "url(", "/", "out", "/", "i", ")">>,
                      map |-> OneLineMap(S2, TRUE)]}))

Spec == Init /\ [][Next]_vars

\* Builds and rebuilds that vary the naming patterns, the entry flag and the
\* chain of imports from A over B to C.
HashedEntryNames == <<"[name]", ".", "[hash]", ".css">>
PlainChunkNames == <<"[name]", ".css">>

InitNames ==
    InitWith(Bundles({<<>>, <<B>>}, {<<>>, <<C>>}, {<<>>},
                     {<<M3>>, <<M2>>}, {<<>>, <<M2>>}, {<<M1>>},
                     BOOLEAN, {0}, {<<1, 2, 3>>}),
             Options(BOOLEAN, {FALSE}, BOOLEAN, {FALSE},
                     {defaultPluginOptions.entryFileNames, HashedEntryNames},
                     {defaultPluginOptions.chunkFileNames, PlainChunkNames}),
             {OutDir},
             Tables({[code |-> <<"a">>, map |-> EmptyMap]},
                    {[code |-> <<"b", "a">>, map |-> EmptyMap]}))

SpecNames == InitNames /\ [][Next]_vars

----------------------------------------------------------------------------
(* Shorthands for the properties                                           *)

\* The code chunks of the bundle, by index.
ChunkIndexes == {k \in 1..Len(bundle) : bundle[k].type = "chunk"}

\* The ids in the import list the host rendered for chunk k that are code
\* chunks of the bundle.
ImportedChunks(k) ==
    {hostBundle[k].imports[i] : i \in 1..Len(hostBundle[k].imports)}
        \cap {bundle[j].fileName : j \in ChunkIndexes}

\* The position in `results` of the chunk named f, 0 when the loop has not
\* processed it.
ResultIndex(f) ==
    IF \E n \in 1..Len(results) : results[n].fileName = f
    THEN CHOOSE n \in 1..Len(results) : results[n].fileName = f
    ELSE 0

\* generateBundle has returned or raised.
Ended == pc \in {"done", "threw"}

----------------------------------------------------------------------------
(* C1: once the Orderer has run on a bundle whose import relation is       *)
(* acyclic, every code chunk is registered, and every code chunk that a    *)
(* chunk imports has a smaller order than the chunk itself, whatever the   *)
(* order in which the bundle lists its entries.                            *)
C1_ImportsOrderedFirst ==
    pc # "idle" =>
        \A k \in ChunkIndexes :
            /\ OrderOf(chunksMap, bundle[k].fileName) > 0
            /\ \A y \in ImportedChunks(k) :
                 /\ OrderOf(chunksMap, y) > 0
                 /\ OrderOf(chunksMap, y) < OrderOf(chunksMap, bundle[k].fileName)

\* A imports B imports C, the bundle lists A before B before C, and the
\* Orderer has run.
C1_Witness ==
    /\ pc = "done"
    /\ bundle[2].fileName = A /\ bundle[3].fileName = B /\ bundle[4].fileName = C
    /\ hostBundle[2].imports = <<B>> /\ hostBundle[3].imports = <<C>>
    /\ OrderOf(chunksMap, C) = 1 /\ OrderOf(chunksMap, B) = 2 /\ OrderOf(chunksMap, A) = 3

----------------------------------------------------------------------------
(* C10: on a bundle whose import relation is acyclic generateBundle runs   *)
(* to completion without raising, under every option setting, also when   *)
(* an import list of two or more ids names ids the Orderer did not         *)
(* register.                                                               *)
C10_NeverRaises == pc # "threw"

----------------------------------------------------------------------------
(* C7: with injectImports on, once generateBundle has ended, the merged    *)
(* text of every chunk holds, for every code chunk it imports that         *)
(* produced a style artifact, an @import statement naming that artifact    *)
(* relative to the chunk's directory; the statements stand before the      *)
(* chunk's own fragment text, in ascending order of the imported chunks.   *)

\* The artifact name of the chunk named f, <<>> when it produced none.
ArtifactOf(f) ==
    LET n == ResultIndex(f)
    IN  IF n # 0 /\ \E e \in 1..Len(results[n].assets) :
                       results[n].assets[e].kind = "css"
        THEN results[n].css_file_name
        ELSE <<>>

\* The text of the fragments of chunk k, as the Collector lists them.
RECURSIVE FragmentText(_)
FragmentText(fs) ==
    IF fs = <<>> THEN <<>>
    ELSE css_data[Head(fs)].code \o <<"\n">> \o FragmentText(Tail(fs))

\* Where the statement importing the artifact of y starts in the merged text
\* of the chunk named f, 0 when it is not there.
ImportPosition(f, y) ==
    IF ResultIndex(f) = 0 THEN 0
    ELSE IndexFrom(results[ResultIndex(f)].merged, ImportStatement(f, ArtifactOf(y)), 1)

C7_ImportsInjected ==
    (Ended /\ pluginOptions.injectImports) =>
        \A k \in ChunkIndexes :
            \A y \in ImportedChunks(k) :
                ArtifactOf(y) # <<>> =>
                    /\ ImportPosition(bundle[k].fileName, y) > 0
                    /\ ImportPosition(bundle[k].fileName, y)
                          + Len(ImportStatement(bundle[k].fileName, ArtifactOf(y)))
                       <= Len(results[ResultIndex(bundle[k].fileName)].merged)
                          - Len(FragmentText(results[ResultIndex(bundle[k].fileName)].fragments))
                    /\ \A z \in ImportedChunks(k) :
                         (ArtifactOf(z) # <<>>
                            /\ OrderOf(chunksMap, y) < OrderOf(chunksMap, z))
                         => ImportPosition(bundle[k].fileName, y)
                              < ImportPosition(bundle[k].fileName, z)

\* The same statement for the builds in which generateBundle returned.
C7_WhenReturned == pc = "threw" \/ C7_ImportsInjected

----------------------------------------------------------------------------
(* C2: with injectImports, makeRelativeUrls and sourcemap off and emission *)
(* on with an output directory, every chunk with at least one collected    *)
(* fragment has exactly one emitted artifact, and its content is each      *)
(* fragment's code followed by one line break, in the order of the chunk's *)
(* modules and, within a module, of its imported ids, repeats kept.        *)

\* The text the claim expects for the modules ms: module by module, imported
\* id by imported id.
RECURSIVE ExpectedOfIds(_)
ExpectedOfIds(ids) ==
    IF ids = <<>> THEN <<>>
    ELSE (IF Head(ids) \in DOMAIN css_data
          THEN css_data[Head(ids)].code \o <<"\n">> ELSE <<>>)
         \o ExpectedOfIds(Tail(ids))

RECURSIVE ExpectedContent(_)
ExpectedContent(ms) ==
    IF ms = <<>> THEN <<>>
    ELSE (IF Head(ms) \in DOMAIN ImportedIds
          THEN ExpectedOfIds(ImportedIds[Head(ms)]) ELSE <<>>)
         \o ExpectedContent(Tail(ms))

\* The emitted style assets named as the artifact of result n.
ArtifactsOf(n) ==
    {e \in 1..Len(emitted) : emitted[e].kind = "css"
                             /\ emitted[e].fileName = results[n].css_file_name}

PlainEmission ==
    /\ ~pluginOptions.injectImports
    /\ ~pluginOptions.makeRelativeUrls
    /\ ~pluginOptions.sourcemap
    /\ pluginOptions.emitFiles
    /\ outputDir # <<>>

C2_ContentIsConcatenation ==
    PlainEmission =>
        \A n \in 1..Len(results) :
            LET k == Lookup(hostBundle, results[n].fileName)
            IN  ExpectedContent(hostBundle[k].modules) # <<>> =>
                    /\ Cardinality(ArtifactsOf(n)) = 1
                    /\ \A e \in ArtifactsOf(n) :
                         emitted[e].source = ExpectedContent(hostBundle[k].modules)

\* Chunk A lists modules m2, an unknown module and m1, so that s2 is collected
\* twice, and its artifact is out.
C2_Witness ==
    /\ PlainEmission
    /\ pc = "done"
    /\ hostBundle[2].modules = <<M2, Virtual, M1>>
    /\ ResultIndex(A) # 0
    /\ ArtifactsOf(ResultIndex(A)) # {}
    /\ results[ResultIndex(A)].fragments = <<S2, S1, S2>>

----------------------------------------------------------------------------
(* C3: under every configuration, a chunk with zero reachable style        *)
(* fragments produces no artifact (no emitFile call, nothing appended to   *)
(* its import list) and its code is left as it was.                        *)

Untouched(r) ==
    /\ r.assets = <<>>
    /\ r.importsAfter = r.importsBefore
    /\ r.codeAfter = r.codeBefore

C3_SkipRule ==
    \A n \in 1..Len(results) : results[n].fragments = <<>> => Untouched(results[n])

\* C3 as amended: a chunk with zero reachable style fragments into which no
\* import text is injected (always so when injectImports is off) produces no
\* artifact and its code is left as it was.
NoImportText(r) ==
    \/ ~pluginOptions.injectImports
    \/ \A i \in 1..Len(r.importsBefore) :
         LET k == Lookup(bundle, r.importsBefore[i])
         IN  k = 0 \/ \A j \in 1..Len(bundle[k].imports) : ~filter(bundle[k].imports[j])

C3_SkipRuleAmended ==
    \A n \in 1..Len(results) :
        (results[n].fragments = <<>> /\ NoImportText(results[n]))
            => Untouched(results[n])

\* Chunk A has no fragment and reads import.meta.CSS_URL twice; injectImports
\* is on, A imports B, and B has no artifact; A was processed.
C3_Witness ==
    /\ pluginOptions.injectImports
    /\ pc = "done"
    /\ hostBundle[2].imports = <<B>>
    /\ ResultIndex(A) # 0
    /\ results[ResultIndex(A)].fragments = <<>>
    /\ Count(results[ResultIndex(A)].codeBefore, "CSS_FILE_") = 2
    /\ emitted = <<>>

----------------------------------------------------------------------------
(* C4: when the loop processes a chunk whose merged text is not empty,     *)
(* every occurrence of the chunk's placeholder token in its code is        *)
(* replaced by the artifact's public URL, and that step leaves the code of *)
(* every other entry of the bundle as it was.                              *)
C4_PlaceholdersReplaced ==
    [][(pc = "loop" /\ pc' # "threw") =>
         LET k == Lookup(bundle, chunksMap[idx].fileName)
             r == results'[Len(results')]
             token == PlaceholderToken(bundle[k].fileName)
         IN  /\ \A j \in 1..Len(bundle) : j # k => bundle'[j].code = bundle[j].code
             /\ r.merged # <<>> =>
                  /\ IndexFrom(bundle'[k].code, token, 1) = 0
                  /\ ReplaceAll(bundle'[k].code, r.css_file_url, token) = bundle[k].code]_vars

\* Chunk A read import.meta.CSS_URL twice and was patched; chunk B, without
\* fragments, still holds its own two placeholders.
C4_Witness ==
    /\ pc = "done"
    /\ ResultIndex(A) # 0 /\ ResultIndex(B) # 0
    /\ results[ResultIndex(A)].merged # <<>>
    /\ Count(results[ResultIndex(A)].codeBefore, "CSS_FILE_") = 2
    /\ Count(bundle[Lookup(bundle, A)].code, "CSS_FILE_") = 0
    /\ results[ResultIndex(B)].merged = <<>>
    /\ Count(bundle[Lookup(bundle, B)].code, "CSS_FILE_") = 2

----------------------------------------------------------------------------
(* C8: if emitFiles is false or no output directory is configured, then    *)
(* for every chunk the code is left as it was, no asset is registered and  *)
(* nothing is appended to the import list; and when the directory is       *)
(* missing, exactly one warning is surfaced per build.                     *)
NoEmission == ~pluginOptions.emitFiles \/ outputDir = <<>>

OneWarningPerBuild ==
    outputDir = <<>> => warnings = IF pc = "idle" THEN 0 ELSE 1

C8_NothingHappens ==
    NoEmission =>
        /\ \A n \in 1..Len(results) : Untouched(results[n])
        /\ emitted = <<>>
        /\ OneWarningPerBuild

\* C8 as amended: if emitFiles is false or no output directory is configured,
\* no asset is registered and nothing is appended to any import list, while
\* the placeholder substitution is still applied to every chunk whose merged
\* text is not empty (and to no other); and when the directory is missing,
\* exactly one warning is surfaced per build.
C8_NoBookkeepingButPatched ==
    NoEmission =>
        /\ emitted = <<>>
        /\ \A k \in 1..Len(bundle) : bundle[k].imports = hostBundle[k].imports
        /\ \A n \in 1..Len(results) :
             /\ results[n].assets = <<>>
             /\ results[n].importsAfter = results[n].importsBefore
             /\ IF results[n].merged = <<>>
                THEN results[n].codeAfter = results[n].codeBefore
                ELSE /\ Count(results[n].codeAfter, "CSS_FILE_") = 0
                     /\ ReplaceAll(results[n].codeAfter, results[n].css_file_url,
                                   PlaceholderToken(results[n].fileName))
                          = results[n].codeBefore
        /\ OneWarningPerBuild

\* No output directory: chunk A, with fragments and two placeholders, was
\* patched, nothing was emitted and one warning was given.
C8_Witness ==
    /\ outputDir = <<>>
    /\ pluginOptions.emitFiles
    /\ pc = "done"
    /\ ResultIndex(A) # 0
    /\ results[ResultIndex(A)].merged # <<>>
    /\ Count(results[ResultIndex(A)].codeBefore, "CSS_FILE_") = 2
    /\ Count(results[ResultIndex(A)].codeAfter, "CSS_FILE_") = 0
    /\ emitted = <<>>
    /\ warnings = 1

----------------------------------------------------------------------------
(* C5: in every emitted merged map to which at least one fragment with     *)
(* sourcesContent contributed, sources and sourcesContent have the same    *)
(* length, also when fragments with and without sourcesContent are mixed.  *)
MapAssets(n) ==
    {e \in 1..Len(results[n].assets) : results[n].assets[e].kind = "map"}

C5_SourcesMatchContent ==
    \A n \in 1..Len(results) :
        \A e \in MapAssets(n) :
            (\E q \in 1..Len(results[n].placed) :
                css_data[results[n].placed[q].id].map.hasSourcesContent)
            => Len(results[n].assets[e].map.sources)
                 = Len(results[n].assets[e].map.sourcesContent)

----------------------------------------------------------------------------
(* C9: in every emitted merged map, the mapping lines of each contributing *)
(* fragment stand at the generated lines at which the fragment's text      *)
(* stands in the merged text, and the segments of its first line at the    *)
(* generated columns counted from where that text begins, also when        *)
(* injected import text precedes the first fragment.                       *)

\* Of every segment of a decoded line: generated column (moved by `by`),
\* source line and source column.
Positions(line, by) ==
    [g \in 1..Len(line) |-> <<line[g][1] + by, line[g][3], line[g][4]>>]

C9_MapAligned ==
    \A n \in 1..Len(results) :
        \A e \in MapAssets(n) :
            LET table == decode(results[n].assets[e].map.mappings)
            IN  \A q \in 1..Len(results[n].placed) :
                    LET p == results[n].placed[q]
                        own == decode(css_data[p.id].map.mappings)
                    IN  \A l \in 1..Len(own) :
                            /\ p.textLine + l <= Len(table)
                            /\ Positions(table[p.textLine + l], 0)
                                 = Positions(own[l], IF l = 1 THEN p.textColumn ELSE 0)

\* The same statement for the builds without injected import text.
C9_WithoutImportText == pluginOptions.injectImports \/ C9_MapAligned

----------------------------------------------------------------------------
(* C6: of two builds that differ in one character of one fragment, the     *)
(* artifact of every chunk that contains the fragment gets a different     *)
(* file name in the second build, and the artifact of every chunk that     *)
(* neither contains the fragment nor imports a chunk containing it gets    *)
(* the same file name, for entry and non-entry chunks under the configured *)
(* patterns, the defaults included.                                        *)

\* Chunk k of the bundle holds a module that imports the style module id.
ContainsFragment(k, id) ==
    \E m \in 1..Len(hostBundle[k].modules) :
        /\ hostBundle[k].modules[m] \in DOMAIN ImportedIds
        /\ \E i \in 1..Len(ImportedIds[hostBundle[k].modules[m]]) :
             ImportedIds[hostBundle[k].modules[m]][i] = id

\* The artifact name of the chunk named f in the previous build, <<>> when it
\* produced none.
PreviousArtifactOf(f) ==
    IF \E n \in 1..Len(prev) :
          /\ prev[n].fileName = f
          /\ \E e \in 1..Len(prev[n].assets) : prev[n].assets[e].kind = "css"
    THEN prev[CHOOSE n \in 1..Len(prev) : prev[n].fileName = f].css_file_name
    ELSE <<>>

\* The chunk named f has an artifact in this build and in the previous one.
InBothBuilds(f) == ArtifactOf(f) # <<>> /\ PreviousArtifactOf(f) # <<>>

\* The chunks reached from chunk k over at most n imports, k included.
RECURSIVE ReachedWithin(_, _)
ReachedWithin(k, n) ==
    IF n = 0 THEN {k}
    ELSE {k} \cup UNION {ReachedWithin(Lookup(bundle, y), n - 1) : y \in ImportedChunks(k)}

Reached(k) == ReachedWithin(k, Len(bundle))

C6_ContentAddressed ==
    (pc = "done" /\ rebuilds > 0) =>
        \A k \in ChunkIndexes :
            InBothBuilds(bundle[k].fileName) =>
                /\ ContainsFragment(k, edited)
                     => ArtifactOf(bundle[k].fileName) # PreviousArtifactOf(bundle[k].fileName)
                /\ (~ContainsFragment(k, edited)
                      /\ \A y \in ImportedChunks(k) :
                           ~ContainsFragment(Lookup(bundle, y), edited))
                     => ArtifactOf(bundle[k].fileName) = PreviousArtifactOf(bundle[k].fileName)

\* C6 as amended: the artifact of every chunk that contains the fragment and
\* whose naming pattern (entryFileNames for an entry chunk, chunkFileNames
\* otherwise) contains [hash] gets a different file name, and the artifact of
\* every chunk from which no chunk containing the fragment is reached over
\* imports, directly or through other chunks, gets the same file name.
PatternHasHash(k) ==
    \E i \in 1..Len(PatternOf(hostBundle[k])) : PatternOf(hostBundle[k])[i] = "[hash]"

C6_ContentAddressedAmended ==
    (pc = "done" /\ rebuilds > 0) =>
        \A k \in ChunkIndexes :
            InBothBuilds(bundle[k].fileName) =>
                /\ (ContainsFragment(k, edited) /\ PatternHasHash(k))
                     => ArtifactOf(bundle[k].fileName) # PreviousArtifactOf(bundle[k].fileName)
                /\ (\A j \in Reached(k) : ~ContainsFragment(j, edited))
                     => ArtifactOf(bundle[k].fileName) = PreviousArtifactOf(bundle[k].fileName)

\* After an edit of s1: chunk C, which contains it, is renamed; chunk A, not
\* an entry, contains only s2, imports nothing and keeps its hashed name.
C6_Witness ==
    /\ pc = "done" /\ rebuilds > 0 /\ edited = S1
    /\ InBothBuilds(C) /\ InBothBuilds(A)
    /\ ContainsFragment(Lookup(bundle, C), S1)
    /\ ArtifactOf(C) # PreviousArtifactOf(C)
    /\ ~hostBundle[Lookup(bundle, A)].isEntry
    /\ PatternHasHash(Lookup(bundle, A))
    /\ hostBundle[Lookup(bundle, A)].imports = <<>>
    /\ ~ContainsFragment(Lookup(bundle, A), S1)
    /\ ArtifactOf(A) = PreviousArtifactOf(A)

=============================================================================
